---- MODULE Spec2Model ----
(***************************************************************************)
(* A model of the campaign execution engine of x-auto-dm:                  *)
(*   src/x_dm_sender_improved.py  XDMSender (constructor, run, discovery,  *)
(*                                send loop, history log, reporting)       *)
(*   src/scheduler.py             the scheduler that starts several runs   *)
(*                                per calendar day                         *)
(*   src/maintenance_tools.py     the readers of the history log           *)
(*                                                                         *)
(* The history log (a CSV file) outlives the sender process; everything    *)
(* else is per-process state of one XDMSender object.                      *)
(***************************************************************************)
EXTENDS Integers, Sequences, FiniteSets, TLC

(***************************************************************************)
(* Calendar.  A datetime is a number of seconds; a date string is the      *)
(* tuple of the fields strftime prints: <<day, hour, minute, second>> for  *)
(* '%Y-%m-%d %H:%M:%S' and <<day, hour, minute>> for '%Y-%m-%d %H:%M'      *)
(* (the calendar date Y-m-d is kept as one day number).                    *)
(***************************************************************************)
SecondsPerMinute == 60
MinutesPerHour == 60
HoursPerDay == 24
SecondsPerHour == SecondsPerMinute * MinutesPerHour
SecondsPerDay == SecondsPerHour * HoursPerDay

\* Bounds of the model.
MaxHistory == 3       \* rows of the log: a sender process starts only if its rows fit
MaxTicks == 2         \* clock advances
TickHours == 12       \* hours the clock advances at a time
MaxRows == 2          \* rows of a drawn log file
MaxMessage == 2       \* characters of the message text

\* Configuration (config.json), read through self.config.
max_messages_per_day == 2
sent_history_reset_days == 1
blocked_hours == 0 .. 6
NumKeywords == 1
max_users_per_keyword == 2
max_scroll_per_page == 5

TickSeconds == TickHours * SecondsPerHour
MaxNow == MaxTicks * TickSeconds

DayOf(t) == t \div SecondsPerDay
HourOf(t) == (t % SecondsPerDay) \div SecondsPerHour
MinuteOf(t) == (t % SecondsPerHour) \div SecondsPerMinute
SecondOf(t) == t % SecondsPerMinute

\* datetime.strftime('%Y-%m-%d %H:%M:%S')
strftime_HMS(t) == <<DayOf(t), HourOf(t), MinuteOf(t), SecondOf(t)>>
\* datetime.strftime('%Y-%m-%d')
strftime_date(t) == <<DayOf(t)>>
\* the date string of t in the format '%Y-%m-%d %H:%M'
DateStringHM(t) == <<DayOf(t), HourOf(t), MinuteOf(t)>>
\* str.startswith on date strings
StartsWith(s, p) == Len(s) >= Len(p) /\ SubSeq(s, 1, Len(p)) = p

\* datetime.strptime(s, '%Y-%m-%d %H:%M'): raises ValueError unless the string
\* has exactly the fields of the format ("unconverted data remains" otherwise).
ParsesHM(s) == Len(s) = 3
ValueHM(s) == s[1] * SecondsPerDay + s[2] * SecondsPerHour + s[3] * SecondsPerMinute
\* datetime.strptime(s, '%Y-%m-%d %H:%M:%S')
ParsesHMS(s) == Len(s) = 4
ValueHMS(s) == s[1] * SecondsPerDay + s[2] * SecondsPerHour + s[3] * SecondsPerMinute + s[4]

(***************************************************************************)
(* Targets.  A profile link (href) names a site and an account; the        *)
(* identifier extract_usernames_from_page derives from it is "@" + the     *)
(* last path segment, so two links to one account give one identifier.    *)
(***************************************************************************)
Hrefs == { [site |-> "x.com", name |-> "a"], [site |-> "twitter.com", name |-> "a"],
           [site |-> "x.com", name |-> "b"] }
UsernameOf(href) == <<"@", href.name>>
\* extract_usernames_from_page: the (username, href) pair of a link
PairOf(href) == <<UsernameOf(href), href>>
Pairs == { PairOf(h) : h \in Hrefs }
Usernames == { UsernameOf(h) : h \in Hrefs }
\* what the blacklist sheet may hold
Blacklists == { {}, {[site |-> "x.com", name |-> "b"]} }

Min(a, b) == IF a <= b THEN a ELSE b

VARIABLES
  now,            \* wall clock, seconds
  history,        \* rows of the log file (after the header), in file order
  log_writable,   \* the log file can be opened for writing (no full disk, no lock)
  pc,             \* position of the sender process; "idle": none is running
  sent_users,     \* self.sent_users
  blacklist_urls, \* self.blacklist_urls
  sent_count,     \* self.sent_count
  driver,         \* self.driver is set (the browser session is held)
  daily_cap,      \* self.config['sending']['max_messages_per_day'] as run() reads it
                  \* before the expansion phase
  kw,             \* keywords searched so far in search_users_by_keywords
  target_users,   \* target_users of run()
  seeds,          \* seeds still to open in collect_following_users
  opened,         \* following pages collect_following_users has opened
  following_users,\* following_users of collect_following_users
  todo,           \* elements of list(target_users) the send loop has not reached
  iter,           \* iterations of the send loop started
  slack,          \* kinds of notification delivered by this process
  runStart,       \* Len(history) when this process was constructed
  raw,            \* last set returned by scroll_and_collect
  kept,           \* last filtered set built from raw
  calls,          \* send_dm_to_user invocations of this process, in order, with the outcome
  trace,          \* what this process did: "driver", "discover", "loopEnd", ...;
                  \* "queryFailed", "resumed": of the current discovery phase
  startedAt,      \* the time run() was entered; -1 before
  \* scroll_and_collect and the page it reads
  page,           \* the profile links the page shows
  height,         \* document.body.scrollHeight
  scroll,         \* reveal (scroll) actions performed
  stable_count,   \* stable_count of scroll_and_collect
  all_usernames,  \* all_usernames of scroll_and_collect
  heightLog,      \* per reveal action: did the page height change
  growLog,        \* per reveal action: did it bring candidates not yet accumulated
  extracted,      \* every candidate extract_usernames_from_page has returned in this call
  \* send_dm_to_user
  message,        \* len(message)
  selector,       \* selectors of the current list already tried
  typed,          \* characters of the message typed
  attempt,        \* click attempts safe_click has made
  steps,          \* what this invocation has done and seen, in order
  returned,       \* what send_dm_to_user returned; <<>> before
  \* the readers of the log file
  stats,          \* what the reader returned or reported; "none" before
  \* wait_between_actions
  action_count,   \* its argument
  drawn,          \* random.uniform(min_wait, max_wait), seconds
  base_wait,      \* base_wait, in tenths of a second; -1 before it is scaled
  \* the scheduler
  children,       \* sender processes started by run_dm_sender that are alive
  due,            \* run_dm_sender jobs run_pending has still to run
  child_started   \* the time the last subprocess.run started its child

vars == <<now, history, log_writable, pc, sent_users, blacklist_urls, sent_count, driver,
          daily_cap, kw,
          target_users, seeds, opened, following_users, todo, iter, slack, runStart, raw, kept,
          calls, trace, startedAt, page, height, scroll, stable_count, all_usernames,
          heightLog, growLog, extracted, message, selector, typed, attempt, steps, returned,
          stats, action_count, drawn, base_wait, children, due, child_started>>

\* the variables of scroll_and_collect
scrollVars == <<page, height, scroll, stable_count, all_usernames, heightLog, growLog,
                extracted>>
\* the locals of the discovery phase of run()
discoveryVars == <<daily_cap, kw, target_users, seeds, opened, following_users, raw, kept>>
\* the send loop's own
loopVars == <<todo, iter, calls, sent_count>>
\* the locals of send_dm_to_user
sendVars == <<message, selector, typed, attempt, steps, returned>>
\* the locals of wait_between_actions
paceVars == <<action_count, drawn, base_wait>>
\* the scheduler's
schedVars == <<children, due, child_started>>

(***************************************************************************)
(* Pure parts of XDMSender.                                                *)
(***************************************************************************)
\* load_sent_history: the usernames of the rows that parse, are newer than the
\* reset date and are Success; a row whose date does not parse is skipped.
load_sent_history(rows, t) ==
  { rows[i].username : i \in { j \in 1 .. Len(rows) :
        /\ ParsesHM(rows[j].date)
        /\ ValueHM(rows[j].date) > t - sent_history_reset_days * SecondsPerDay
        /\ rows[j].status = "Success" } }

\* is_allowed_time that allows every hour.
is_allowed_time_Always(t) == TRUE

\* is_allowed_time
is_allowed_time(t) == HourOf(t) \notin blocked_hours

\* the filter without the blacklist test
FilterUsers_NoBlacklist(users, su, bl) == { p \in users : p[1] \notin su }

\* the filter of search_users_by_keywords and collect_following_users
FilterUsers(users, su, bl) == { p \in users : p[1] \notin su /\ p[2] \notin bl }

\* setup_files opening the log file for writing whether or not it exists
setup_files_Truncate(rows) == <<>>

\* setup_files: the header is written only when the log file does not exist; an
\* existing file is not opened for writing, and its rows stay as they are.
setup_files(rows) == rows

\* log_sending_result: one row appended, dated now with seconds
log_sending_result(rows, t, username, url, status, error) ==
  Append(rows, [date |-> strftime_HMS(t), username |-> username, url |-> url,
                status |-> status, error |-> error])

\* load_blacklist keeping what it had read when a later step raises
load_blacklist_KeepFetched(fetched, sheet_ok) == fetched

\* load_blacklist: the urls of the sheet, or the empty set when any step raises
load_blacklist(fetched, sheet_ok) == IF sheet_ok THEN fetched ELSE {}

\* send_daily_report: the rows dated today are counted; the success rate divides by
\* their number, and the ZeroDivisionError of an empty day is caught and reported
\* to Slack as a report-generation error, as is any exception of the read.
TodayRows(rows, t) == { i \in 1 .. Len(rows) : StartsWith(rows[i].date, strftime_date(t)) }
\* csv.DictReader's value for a column the row does not have
None == "None"
\* the read of send_daily_report raises on a row of today that is not a Success
\* and has no error column (row['error'][:30] on None is a TypeError)
DailyReadRaises(rows, t) ==
  \E i \in TodayRows(rows, t) : rows[i].status # "Success" /\ rows[i].error = None
send_daily_report(rows, t) ==
  IF DailyReadRaises(rows, t) \/ Cardinality(TodayRows(rows, t)) = 0
    THEN "daily_report_error" ELSE "daily_report"

\* notify_slack: the text reaches the sink unless the post fails (caught, logged)
notify_slack(sink, kind, delivered) == IF delivered THEN sink \cup {kind} ELSE sink

(***************************************************************************)
(* The sender process: main() constructs an XDMSender and calls run().     *)
(***************************************************************************)
\* run() not entered: its counters and locals as the constructor leaves them
RunInit ==
  /\ sent_count = 0
  /\ driver = FALSE
  /\ daily_cap = max_messages_per_day
  /\ kw = 0
  /\ target_users = {}
  /\ seeds = 0
  /\ opened = 0
  /\ following_users = {}
  /\ todo = {}
  /\ iter = 0
  /\ slack = {}
  /\ runStart = 0
  /\ calls = <<>>
  /\ trace = {}
  /\ startedAt = -1
runVars == <<sent_count, driver, daily_cap, kw, target_users, seeds, opened, following_users, todo, iter,
             slack, runStart, calls, trace, startedAt>>
\* no send_dm_to_user in progress, no reader has run
SendInit ==
  /\ message = 0
  /\ selector = 0
  /\ typed = 0
  /\ attempt = 0
  /\ steps = <<>>
  /\ returned = <<>>
  /\ stats = "none"
\* no scroll_and_collect in progress
ScrollInit ==
  /\ page = {}
  /\ height = 0
  /\ scroll = 0
  /\ stable_count = 0
  /\ all_usernames = {}
  /\ heightLog = <<>>
  /\ growLog = <<>>
  /\ extracted = {}

\* no wait_between_actions in progress
PaceInit ==
  /\ action_count = 0
  /\ drawn = 0
  /\ base_wait = -1
\* no scheduler
SchedInit ==
  /\ children = 0
  /\ due = 0
  /\ child_started = 0

\* No sender process, an empty log (setup_files writes the header only), midnight.
\* Whether the file can be written is the environment's: a full disk or a file
\* another program holds open makes every later write fail.
Init ==
  /\ now = 0
  /\ history = <<>>
  /\ log_writable \in BOOLEAN
  /\ PaceInit
  /\ SchedInit
  /\ pc = "idle"
  /\ sent_users = {}
  /\ blacklist_urls = {}
  /\ raw = {}
  /\ kept = {}
  /\ RunInit
  /\ SendInit
  /\ ScrollInit

\* XDMSender.__init__ (called by main, in the scheduler's subprocess): a new
\* process. load_config may raise, which main() catches and logs, and the process
\* ends ("configFailed" stays on record until the next process starts);
\* load_blacklist falls back to the empty set when the sheet cannot be read.
Construct ==
  /\ pc = "idle"
  /\ Len(history) + max_messages_per_day <= MaxHistory
  /\ \E config_ok \in BOOLEAN, fetched \in Blacklists, sheet_ok \in BOOLEAN :
       /\ pc' = IF config_ok THEN "constructed" ELSE "idle"
       /\ history' = IF config_ok THEN setup_files(history) ELSE history
       /\ sent_users' = IF config_ok THEN load_sent_history(history', now) ELSE {}
       /\ blacklist_urls' = IF config_ok THEN load_blacklist(fetched, sheet_ok) ELSE {}
       /\ runStart' = Len(history')
       /\ trace' = IF ~config_ok THEN {"configFailed"}
                   ELSE IF ~sheet_ok THEN {"blacklistFailed"} ELSE {}
  /\ sent_count' = 0
  /\ driver' = FALSE
  /\ UNCHANGED <<log_writable, paceVars, schedVars, now, discoveryVars, todo, iter, calls, slack, startedAt,
                 scrollVars, sendVars, stats>>

\* run(): the time check, then setup_chrome_driver. The driver may fail before the
\* session exists or after (execute_script on the new session); either way the
\* exception reaches run()'s handler, which notifies Slack.
RunGate ==
  /\ pc = "constructed"
  /\ startedAt' = now
  /\ IF ~is_allowed_time(now)
       THEN /\ pc' = "finally"
            /\ UNCHANGED <<driver, slack, trace>>
       ELSE \E result \in {"ok", "no_session", "session_then_error"}, delivered \in BOOLEAN :
            /\ driver' = (result # "no_session")
            /\ pc' = IF result = "ok" THEN "search" ELSE "finally"
            /\ trace' = trace \cup (IF result = "no_session" THEN {} ELSE {"driver"})
                              \cup (IF result = "ok" THEN {}
                                    ELSE {"sessionFailed", "exception"})
            /\ slack' = IF result = "ok" THEN slack
                        ELSE notify_slack(slack, "critical", delivered)
  /\ UNCHANGED <<log_writable, paceVars, schedVars, now, history, sent_users, blacklist_urls, discoveryVars, loopVars,
                 runStart, scrollVars, sendVars, stats>>

\* the handler of a query dropping what the earlier queries collected
QueryExcept_Discard(all_users) == {}

\* search_users_by_keywords and collect_following_users, except Exception: the
\* error is logged and the loop continues with all_users as it was
QueryExcept(all_users) == all_users

\* what a query adds to the record of the phase: "queryFailed" when it raised,
\* "resumed" when it went through after an earlier one had raised
QueryTrace(t, raised) ==
  t \cup {"discover"}
    \cup (IF raised THEN {"queryFailed"} ELSE {})
    \cup (IF ~raised /\ "queryFailed" \in t THEN {"resumed"} ELSE {})

\* search_users_by_keywords, one keyword: the page is opened and scrolled (the set
\* scroll_and_collect returns is the backend's to choose), the result is filtered
\* and added; an exception anywhere in the keyword is caught and the loop goes on
\* (one raised by the wait that ends the keyword comes after the candidates were
\* added and changes nothing but the log).
\* The loop stops early once enough users are collected.
SearchKeyword ==
  /\ pc = "search"
  /\ kw < NumKeywords
  /\ IF Cardinality(target_users) >= max_users_per_keyword * NumKeywords
       THEN /\ kw' = NumKeywords
            /\ UNCHANGED <<target_users, raw, kept, trace>>
       ELSE /\ kw' = kw + 1
            /\ \E users \in SUBSET Pairs, raised \in BOOLEAN :
                 /\ trace' = QueryTrace(trace, raised)
                 /\ IF raised
                      THEN /\ target_users' = QueryExcept(target_users)
                           /\ UNCHANGED <<raw, kept>>
                      ELSE /\ raw' = users
                           /\ kept' = FilterUsers(users, sent_users, blacklist_urls)
                           /\ target_users' = target_users \cup kept'
  /\ UNCHANGED <<log_writable, paceVars, schedVars, now, history, pc, sent_users, blacklist_urls, driver, daily_cap,
                 seeds, opened, following_users, loopVars, slack, runStart, startedAt,
                 scrollVars, sendVars, stats>>

\* run() after the keyword phase: the expansion phase is entered when fewer users
\* than the daily cap were found; collect_following_users opens at most MaxSeeds
\* of them.
MaxSeeds == 10

\* run(): len(target_users) < self.config['sending']['max_messages_per_day']
ExpansionNeeded(n, cap) == n < cap

\* collect_following_users opening the following page of every target
max_targets_All(n) == n

\* collect_following_users: max_targets = min(10, len(target_users))
max_targets(n) == Min(MaxSeeds, n)

AfterSearch ==
  /\ pc = "search"
  /\ kw = NumKeywords
  /\ IF ExpansionNeeded(Cardinality(target_users), daily_cap)
       THEN /\ pc' = "following"
            /\ seeds' = max_targets(Cardinality(target_users))
            /\ todo' = todo
       ELSE /\ pc' = "loop"
            /\ seeds' = seeds
            /\ todo' = target_users
  /\ following_users' = {}
  /\ opened' = 0
  /\ raw' = {}
  /\ kept' = {}
  /\ trace' = trace \ {"queryFailed", "resumed"}
  /\ UNCHANGED <<log_writable, paceVars, schedVars, now, history, sent_users, blacklist_urls, driver, daily_cap, kw,
                 target_users,
                 iter, calls, sent_count, slack, runStart, startedAt, scrollVars, sendVars, stats>>

\* collect_following_users, one seed: as a keyword, on the seed's following page.
CollectFollowing ==
  /\ pc = "following"
  /\ seeds > 0
  /\ seeds' = seeds - 1
  /\ opened' = opened + 1
  /\ \E users \in SUBSET Pairs, raised \in BOOLEAN :
       /\ trace' = QueryTrace(trace, raised)
       /\ IF raised
            THEN /\ following_users' = QueryExcept(following_users)
                 /\ UNCHANGED <<raw, kept>>
            ELSE /\ raw' = users
                 /\ kept' = FilterUsers(users, sent_users, blacklist_urls)
                 /\ following_users' = following_users \cup kept'
  /\ UNCHANGED <<log_writable, paceVars, schedVars, now, history, pc, sent_users, blacklist_urls, driver, daily_cap,
                 kw, target_users, loopVars, slack, runStart, startedAt, scrollVars, sendVars,
                 stats>>

\* run(): target_users.update(following_users), then the send loop starts.
AfterFollowing ==
  /\ pc = "following"
  /\ seeds = 0
  /\ target_users' = target_users \cup following_users
  /\ todo' = target_users'
  /\ pc' = "loop"
  /\ raw' = {}
  /\ kept' = {}
  /\ opened' = 0
  /\ trace' = trace \ {"queryFailed", "resumed"}
  /\ UNCHANGED <<log_writable, paceVars, schedVars, now, history, sent_users, blacklist_urls, driver, daily_cap, kw,
                 seeds,
                 following_users, iter, calls, sent_count, slack, runStart,
                 startedAt, scrollVars, sendVars, stats>>

\* LoopEnds without the slice: the loop goes on until sent_count reaches the cap.
LoopEnds_NoSlice(i, n, count) == i >= n \/ count >= max_messages_per_day

\* LoopEnds without the slice and without the cap: the loop goes over every target.
LoopEnds_NoCap(i, n, count) == i >= n

\* The send loop's exits before a target is taken: the slice
\* list(target_users)[:max_messages_per_day] is used up (i iterations done, of n
\* targets), or sent_count has reached the cap.
LoopEnds(i, n, count) ==
  i >= Min(max_messages_per_day, n) \/ count >= max_messages_per_day

\* the loop counting every attempt
CountSent_EveryAttempt(count, success) == count + 1

\* run(): if success: self.sent_count += 1
CountSent(count, success) == IF success THEN count + 1 ELSE count

\* One iteration of the send loop of run().  A set has no order of its own, so
\* list(target_users) is any order: each iteration takes any element not yet taken.
\* send_dm_to_user returns (success, error) and never raises; the row is logged,
\* and a success is counted and remembered.  log_sending_result catches and logs
\* any exception of its write (the file cannot be opened for writing), so the
\* row is missing while the loop goes on.  The wait that ends the iteration
\* (wait_between_actions) reads the configuration and may raise: the exception
\* reaches run()'s handler, which notifies Slack.
SendIteration ==
  /\ pc = "loop"
  /\ IF LoopEnds(iter, Cardinality(target_users), sent_count)
       THEN /\ pc' = "finally"
            /\ trace' = trace \cup {"loopEnd"}
            /\ UNCHANGED <<history, sent_users, loopVars, slack>>
       ELSE IF ~is_allowed_time(now)
       THEN /\ pc' = "finally"
            /\ trace' = trace \cup {"blockedInLoop"}
            /\ UNCHANGED <<history, sent_users, loopVars, slack>>
       ELSE \E target \in todo, success \in BOOLEAN, wait_raised \in BOOLEAN,
               delivered \in BOOLEAN :
            /\ calls' = Append(calls, [username |-> target[1], url |-> target[2],
                                       success |-> success, at |-> now])
            /\ history' = IF log_writable
                          THEN log_sending_result(history, now, target[1], target[2],
                                                  IF success THEN "Success" ELSE "Failed",
                                                  IF success THEN "Success" ELSE "error")
                          ELSE history
            /\ sent_count' = CountSent(sent_count, success)
            /\ sent_users' = IF success THEN sent_users \cup {target[1]} ELSE sent_users
            /\ todo' = todo \ {target}
            /\ iter' = iter + 1
            /\ pc' = IF wait_raised THEN "finally" ELSE pc
            /\ trace' = IF wait_raised THEN trace \cup {"exception"} ELSE trace
            /\ slack' = IF wait_raised THEN notify_slack(slack, "critical", delivered)
                        ELSE slack
  /\ UNCHANGED <<log_writable, paceVars, schedVars, now, blacklist_urls, driver, discoveryVars, runStart, startedAt,
                 scrollVars, sendVars, stats>>

\* the finally block never quitting the driver
ShouldQuit_Never(d) == FALSE

\* the finally block's test: the driver is quit if self.driver is set
ShouldQuit(d) == d

\* The finally block of run(), first statement: driver.quit() if the driver is
\* set.  quit() is a backend call and may raise; nothing in the block catches it,
\* so the exception leaves run() (main logs it) and the reports are never sent.
Cleanup ==
  /\ pc = "finally"
  /\ IF ShouldQuit(driver)
       THEN \E quit_ok \in BOOLEAN :
            /\ trace' = trace \cup {IF "quit" \in trace THEN "quitAgain" ELSE "quit"}
                              \cup (IF quit_ok THEN {} ELSE {"quitRaised"})
            /\ driver' = ~quit_ok
            /\ pc' = IF quit_ok THEN "report" ELSE "done"
       ELSE /\ pc' = "report"
            /\ UNCHANGED <<driver, trace>>
  /\ UNCHANGED <<log_writable, paceVars, schedVars, now, history, sent_users, blacklist_urls, discoveryVars, loopVars, slack,
                 runStart, startedAt, scrollVars, sendVars, stats>>

\* The finally block of run(), after the cleanup: the daily report (and, on the
\* report day, the monthly one) goes to Slack; both catch their own exceptions.
Report ==
  /\ pc = "report"
  /\ \E delivered \in BOOLEAN, report_day \in BOOLEAN, delivered_monthly \in BOOLEAN :
       slack' = notify_slack(
                  notify_slack(slack, send_daily_report(history, now), delivered),
                  "monthly_report", report_day /\ delivered_monthly)
  /\ trace' = trace \cup {"reported"} \cup (IF driver THEN {"reportedHolding"} ELSE {})
  /\ pc' = "done"
  /\ UNCHANGED <<log_writable, paceVars, schedVars, now, history, sent_users, blacklist_urls, driver, discoveryVars, loopVars,
                 runStart, startedAt, scrollVars, sendVars, stats>>

\* The process exits: its memory is gone, the log file stays.
Exit ==
  /\ pc = "done"
  /\ pc' = "idle"
  /\ sent_users' = {}
  /\ blacklist_urls' = {}
  /\ sent_count' = 0
  /\ driver' = FALSE
  /\ kw' = 0
  /\ target_users' = {}
  /\ seeds' = 0
  /\ opened' = 0
  /\ following_users' = {}
  /\ todo' = {}
  /\ iter' = 0
  /\ slack' = {}
  /\ runStart' = 0
  /\ raw' = {}
  /\ kept' = {}
  /\ calls' = <<>>
  /\ trace' = {}
  /\ startedAt' = -1
  /\ UNCHANGED <<log_writable, paceVars, schedVars, now, history, daily_cap, scrollVars, sendVars, stats>>

\* Time passes: between processes, and in the waits of the send loop.
Tick ==
  /\ pc \in {"idle", "loop"}
  /\ now + TickSeconds <= MaxNow
  /\ now' = now + TickSeconds
  /\ UNCHANGED <<log_writable, paceVars, schedVars, history, pc, sent_users, blacklist_urls, driver,
                 discoveryVars, loopVars,
                 slack, runStart, trace, startedAt, scrollVars, sendVars, stats>>

Next ==
  \/ Construct
  \/ RunGate
  \/ SearchKeyword
  \/ AfterSearch
  \/ CollectFollowing
  \/ AfterFollowing
  \/ SendIteration
  \/ Cleanup
  \/ Report
  \/ Exit
  \/ Tick

Spec == Init /\ [][Next]_vars

(***************************************************************************)
(* Claims about a run, checked under Spec.                                 *)
(***************************************************************************)
\* the rows this process has written
RunRows == { i \in runStart + 1 .. Len(history) : pc # "idle" }
\* run() was entered in a blocked hour
BlockedAtStart == startedAt >= 0 /\ HourOf(startedAt) \in blocked_hours

\* C1: in every state of a run, and so at the end of every iteration of the send
\* loop, sent_count is at most the daily cap max_messages_per_day.
C1_SentCountWithinCap == sent_count <= max_messages_per_day
\* an iteration has ended with the cap reached
C1_Witness == pc = "loop" /\ iter > 0 /\ sent_count = max_messages_per_day

\* C2: over all runs, the Success rows of the log dated on one calendar day are
\* never more than the daily cap.
C2_DailyCapAcrossRuns ==
  \A d \in { history[i].date[1] : i \in 1 .. Len(history) } :
    Cardinality({ i \in 1 .. Len(history) :
                    history[i].date[1] = d /\ history[i].status = "Success" })
      <= max_messages_per_day

\* C3: a run never sends to an identifier that an earlier run's Success row, still
\* inside the rolling window when the send is made, names.
C3_NoResendInsideWindow ==
  \A i \in 1 .. runStart, j \in RunRows :
    (history[i].status = "Success" /\ history[i].username = history[j].username)
      => ~(ValueHMS(history[i].date)
             > ValueHMS(history[j].date) - sent_history_reset_days * SecondsPerDay)

\* C5: among the rows one run writes, no username has two Success rows.
C5_NoDoubleSuccessInRun ==
  \A i \in RunRows, j \in RunRows :
    (i < j /\ history[i].status = "Success" /\ history[j].status = "Success")
      => history[i].username # history[j].username

\* C6: a failed attempt does not consume the cap: when the send loop ends on its
\* own (not stopped by a blocked hour), either sent_count has reached the cap or
\* every filtered candidate was attempted.
C6_FailedDoNotConsumeCap ==
  "loopEnd" \in trace => (sent_count = max_messages_per_day \/ todo = {})

\* C8: a run entered in a blocked hour does no partial work: the driver is never
\* set up, no discovery is made, send_dm_to_user is never called and no row is
\* appended to the log.
C8_BlockedStartNoWork ==
  BlockedAtStart =>
    /\ ~driver
    /\ trace \cap {"driver", "discover"} = {}
    /\ calls = <<>>
    /\ Len(history) = runStart
\* a run that was entered in a blocked hour has ended
C8_Witness == BlockedAtStart /\ pc = "done"

\* C9: a run entered in a blocked hour sends no error notification to Slack,
\* whatever the log holds.
C9_BlockedStartNoErrorNotification ==
  BlockedAtStart => slack \cap {"critical", "daily_report_error"} = {}

\* h is the beginning of g
IsPrefix(h, g) == Len(h) <= Len(g) /\ SubSeq(g, 1, Len(h)) = h

\* C11: the log is append-only for the engine: in every step of XDMSender (the
\* constructor, run, the reports) the rows before the step are a prefix of the
\* rows after it; no row is edited, reordered or deleted.
C11_LogAppendOnly == [][IsPrefix(history, history')]_vars
\* a later process has appended to the rows an earlier one left
C11_Witness == runStart > 0 /\ Len(history) > runStart

\* C12: when load_blacklist fails, the constructor still completes, with
\* blacklist_urls empty, and the run that follows filters its candidates by the
\* history index alone; the failure does not end the process.
C12_BlacklistFailureNotFatal ==
  "blacklistFailed" \in trace =>
    /\ pc # "idle"
    /\ blacklist_urls = {}
    /\ pc \in {"search", "following"} => kept = { p \in raw : p[1] \notin sent_users }
\* after a failed load_blacklist the run made discovery and sent a message
C12_Witness ==
  /\ "blacklistFailed" \in trace
  /\ "discover" \in trace
  /\ \E k \in 1 .. Len(calls) : calls[k].success

\* C15: on every exit path of run() on which the driver was set, driver.quit() is
\* called exactly once, and before the end-of-run reports start.
C15_QuitOnceBeforeReport ==
  /\ "quitAgain" \notin trace
  /\ "reportedHolding" \notin trace
  /\ "quit" \in trace => "driver" \in trace
  /\ (pc \in {"report", "done"} /\ "driver" \in trace) => "quit" \in trace
\* a run stopped by an exception with the driver set has quit it and reported
C15_Witness == pc = "done" /\ {"driver", "exception", "quit", "reported"} \subseteq trace

\* C16: the end-of-run report is attempted on every exit path of run(): a run that
\* has ended has called send_daily_report.
C16_ReportAlwaysAttempted == pc = "done" => "reported" \in trace

\* C18: within one run no username is passed to send_dm_to_user more than once,
\* whatever the outcome of its first attempt.
C18_NoIdentifierAttemptedTwice ==
  \A i \in 1 .. Len(calls), j \in 1 .. Len(calls) :
    i < j => calls[i].username # calls[j].username

\* C19: the number of send_dm_to_user calls of one run never exceeds
\* min(max_messages_per_day, number of filtered candidates).
C19_CallsWithinMin ==
  Len(calls) <= Min(max_messages_per_day, Cardinality(target_users))
\* a run with more candidates than the cap and a failed attempt has ended its loop
C19_Witness ==
  /\ "loopEnd" \in trace
  /\ Cardinality(target_users) > max_messages_per_day
  /\ \E k \in 1 .. Len(calls) : ~calls[k].success

\* C20: the blocked-hours gate is evaluated before every target: no
\* send_dm_to_user call follows a check that found the hour blocked, and once a
\* check in the loop found it blocked the run makes no further call and appends
\* no further row.
C20_GatePerTarget ==
  /\ [](\A k \in 1 .. Len(calls) : HourOf(calls[k].at) \notin blocked_hours)
  /\ [][("blockedInLoop" \in trace /\ pc' # "idle")
         => (calls' = calls /\ history' = history)]_vars
\* a run that had sent was stopped by the gate in the loop, and has ended
C20_Witness == "blockedInLoop" \in trace /\ calls # <<>> /\ pc = "done"

\* C21: every send_dm_to_user call of a run has its row: the rows the run has
\* written are, in order, the calls it has made, each with the call's username and
\* outcome, and sent_count is the number of Success rows among them, so no send is
\* counted without its row.
C21_OneRowPerCall ==
  pc # "idle" =>
    /\ Len(history) - runStart = Len(calls)
    /\ \A k \in 1 .. Len(calls) :
         runStart + k <= Len(history) =>
           /\ history[runStart + k].username = calls[k].username
           /\ history[runStart + k].status
                = (IF calls[k].success THEN "Success" ELSE "Failed")
    /\ sent_count = Cardinality({ i \in RunRows : history[i].status = "Success" })

\* C22: a failed attempt does not halt the run: in the loop, after a call that
\* returned Failed, with a candidate not yet attempted, sent_count under the cap
\* and the hour allowed, the next step of the process is another call.
C22_FailureDoesNotHalt ==
  [][( /\ pc = "loop"
       /\ calls # <<>>
       /\ ~calls[Len(calls)].success
       /\ todo # {}
       /\ sent_count < max_messages_per_day
       /\ is_allowed_time(now)
       /\ now' = now )
       => Len(calls') = Len(calls) + 1]_vars

\* C32: on a run-fatal error (the configuration cannot be loaded at
\* construction, or the backend session cannot be established) the process makes
\* no send and writes no row, and a notification or report to the operator is
\* attempted.
C32_FatalErrorAbortsAndNotifies ==
  ({"configFailed", "sessionFailed"} \cap trace # {}) =>
    /\ calls = <<>>
    /\ sent_count = 0
    /\ Len(history) = runStart
    /\ {"exception", "reported"} \cap trace # {}

\* C33: in a run, sent_count is the number of send_dm_to_user calls that returned
\* Success and the username of each of them is in sent_users; between the
\* construction and the end of the process only an iteration of the send loop
\* changes sent_count, and sent_users only grows.
C33_CountMatchesSuccesses ==
  /\ [](pc # "idle" =>
          /\ sent_count = Cardinality({ k \in 1 .. Len(calls) : calls[k].success })
          /\ \A k \in 1 .. Len(calls) : calls[k].success => calls[k].username \in sent_users)
  /\ [][pc \notin {"idle", "done"} =>
          /\ sent_users \subseteq sent_users'
          /\ sent_count' # sent_count => Len(calls') = Len(calls) + 1]_vars
\* the loop has made a failed call and a successful one
C33_Witness ==
  /\ pc = "loop"
  /\ sent_count = 1
  /\ \E k \in 1 .. Len(calls) : ~calls[k].success
  /\ \E k \in 1 .. Len(calls) : calls[k].success

\* C29: the expansion phase keeps no candidate whose username the keyword phase
\* already kept under another url, so the merged collection has no username twice.
C29_ExpansionExcludesKeywordSurvivors ==
  pc = "following" =>
    \A p \in following_users, q \in target_users : p[1] = q[1] => p = q

(***************************************************************************)
(* The two discovery phases of run(), from any result of the keyword phase. *)
(*   src/x_dm_sender_improved.py  run, search_users_by_keywords,           *)
(*   collect_following_users                                               *)
(***************************************************************************)
\* the most candidates the keyword phase is taken to have kept
MaxCandidates == 11

\* accounts the keyword phase may have kept
SeedNames == <<"s01", "s02", "s03", "s04", "s05", "s06", "s07", "s08", "s09", "s10",
               "s11", "s12", "s13">>
KeywordCandidates(k) == { PairOf([site |-> "x.com", name |-> SeedNames[i]]) : i \in 1 .. k }

\* the configured daily cap: the small one of the other specifications, or one
\* above any number of candidates
DailyCaps == {max_messages_per_day, MaxCandidates + 1}

\* A process at the start of search_users_by_keywords, or at its return with any
\* number of candidates kept; the driver is set, nothing was sent.
InitDiscovery ==
  /\ log_writable = TRUE
  /\ PaceInit
  /\ SchedInit
  /\ pc = "search"
  /\ now = 0
  /\ history = <<>>
  /\ sent_users = {}
  /\ blacklist_urls \in Blacklists
  /\ raw = {}
  /\ kept = {}
  /\ sent_count = 0
  /\ driver = TRUE
  /\ daily_cap \in DailyCaps
  /\ \E k \in 0 .. MaxCandidates :
       /\ target_users = KeywordCandidates(k)
       /\ kw \in (IF k = 0 THEN {0, NumKeywords} ELSE {NumKeywords})
  /\ seeds = 0
  /\ opened = 0
  /\ following_users = {}
  /\ todo = {}
  /\ iter = 0
  /\ slack = {}
  /\ runStart = 0
  /\ calls = <<>>
  /\ trace = {"driver"}
  /\ startedAt = 0
  /\ SendInit
  /\ ScrollInit

NextDiscovery ==
  \/ SearchKeyword
  \/ AfterSearch
  \/ CollectFollowing
  \/ AfterFollowing

SpecDiscovery == InitDiscovery /\ [][NextDiscovery]_vars

C30_ExpansionBounded ==
  pc = "following" =>
    /\ Cardinality(target_users) < daily_cap
    /\ opened <= Min(MaxSeeds, Cardinality(target_users))
    /\ Cardinality(target_users) = 0 => opened = 0
\* more candidates than MaxSeeds, under the cap: MaxSeeds pages were opened and
\* the phase is over
C30_Witness ==
  /\ pc = "following"
  /\ Cardinality(target_users) > MaxSeeds
  /\ opened = MaxSeeds
  /\ seeds = 0

(***************************************************************************)
(* The filter alone, on drawn inputs.                                      *)
(***************************************************************************)
\* any collected set, any history index, any blacklist
InitFilter ==
  /\ log_writable = TRUE
  /\ PaceInit
  /\ SchedInit
  /\ pc = "filter"
  /\ raw \in SUBSET Pairs
  /\ sent_users \in SUBSET Usernames
  /\ blacklist_urls \in SUBSET Hrefs
  /\ kept = {}
  /\ now = 0
  /\ history = <<>>
  /\ RunInit
  /\ SendInit
  /\ ScrollInit

\* the set comprehension of search_users_by_keywords and collect_following_users:
\* it builds filtered_users and assigns nothing else
ApplyFilter ==
  /\ pc = "filter"
  /\ kept' = FilterUsers(raw, sent_users, blacklist_urls)
  /\ pc' = "filtered"
  /\ UNCHANGED <<log_writable, paceVars, schedVars, now, history, raw, sent_users, blacklist_urls, runVars, scrollVars, sendVars, stats>>

SpecFilter == InitFilter /\ [][ApplyFilter]_vars

\* C7: the filter retains a candidate (username, url) if and only if username is
\* not in sent_users and url is not in blacklist_urls; what it retains is a
\* subset of the candidates, and sent_users and blacklist_urls are left as they
\* were.
C7_FilterRetainsIff ==
  /\ [](pc = "filtered" =>
          /\ kept \subseteq raw
          /\ \A p \in raw :
               p \in kept <=> (p[1] \notin sent_users /\ p[2] \notin blacklist_urls))
  /\ [][sent_users' = sent_users /\ blacklist_urls' = blacklist_urls]_vars
\* the filter has dropped one candidate for its username, one for its url, and
\* kept one
C7_Witness ==
  /\ pc = "filtered"
  /\ kept # {}
  /\ \E p \in raw : p[1] \in sent_users /\ p[2] \notin blacklist_urls
  /\ \E p \in raw : p[1] \notin sent_users /\ p[2] \in blacklist_urls

(***************************************************************************)
(* load_sent_history alone, on a drawn log file.                           *)
(***************************************************************************)
\* the reset date of a load at LoadNow, and the row times around it
LoadNow == (sent_history_reset_days + 1) * SecondsPerDay
ResetDate == LoadNow - sent_history_reset_days * SecondsPerDay
LoadTimes == { ResetDate - 1, ResetDate, ResetDate + 1, ResetDate + SecondsPerMinute }
\* rows as log_sending_result dates them (with seconds), and rows dated in the
\* format load_sent_history parses (without)
LoadRows ==
  [ date : { strftime_HMS(t) : t \in LoadTimes } \cup { DateStringHM(t) : t \in LoadTimes },
    username : { UsernameOf(h) : h \in { g \in Hrefs : g.site = "x.com" } },
    url : { [site |-> "x.com", name |-> "a"] },
    status : {"Success", "Failed"},
    error : {"Success"} ]

InitLoad ==
  /\ log_writable = TRUE
  /\ PaceInit
  /\ SchedInit
  /\ pc = "load"
  /\ now = LoadNow
  /\ history \in UNION { [1 .. n -> LoadRows] : n \in 0 .. MaxRows }
  /\ sent_users = {}
  /\ blacklist_urls = {}
  /\ raw = {}
  /\ kept = {}
  /\ RunInit
  /\ SendInit
  /\ ScrollInit

\* load_sent_history, called by the constructor
LoadHistory ==
  /\ pc \in {"load", "read"}
  /\ sent_users' = load_sent_history(history, now)
  /\ pc' = "loaded"
  /\ UNCHANGED <<log_writable, paceVars, schedVars, now, history, blacklist_urls, raw, kept, runVars, scrollVars, sendVars, stats>>

SpecLoad == InitLoad /\ [][LoadHistory]_vars

\* the time a row's date string states
RowTime(row) == IF ParsesHMS(row.date) THEN ValueHMS(row.date) ELSE ValueHM(row.date)

\* C4: after load_sent_history, an identifier is in sent_users if and only if the
\* log has a Success row for it newer than now - sent_history_reset_days days
\* (one second newer is enough, one second older is not; Failed rows never count).
C4_IndexIffRecentSuccess ==
  pc = "loaded" =>
    \A u \in Usernames :
      u \in sent_users <=>
        \E i \in 1 .. Len(history) :
          /\ history[i].username = u
          /\ history[i].status = "Success"
          /\ RowTime(history[i]) > now - sent_history_reset_days * SecondsPerDay

(***************************************************************************)
(* The readers of the log file, on a drawn file.                           *)
(*   src/maintenance_tools.py  analyze_sending_statistics,                 *)
(*                             check_sent_history_health                   *)
(*   src/x_dm_sender_improved.py  load_sent_history, send_daily_report     *)
(***************************************************************************)
\* the days argument of analyze_sending_statistics
AnalysisDays == 1
AnalyzeNow == (AnalysisDays + 1) * SecondsPerDay
\* cutoff_date of a reader called at t with a window of days
CutoffDate(t, days) == t - days * SecondsPerDay
AnalyzeTimes ==
  { CutoffDate(AnalyzeNow, AnalysisDays) - 1, CutoffDate(AnalyzeNow, AnalysisDays),
    CutoffDate(AnalyzeNow, AnalysisDays) + 1, AnalyzeNow }
\* rows as log_sending_result writes them, around the cutoff
AnalyzeRows ==
  [ date : { strftime_HMS(t) : t \in AnalyzeTimes },
    username : { UsernameOf([site |-> "x.com", name |-> "a"]) },
    url : { [site |-> "x.com", name |-> "a"] },
    status : {"Success", "Failed"},
    error : {"error"} ]

\* the window test with a strict comparison
InWindow_Strict(send_date, cutoff_date) == send_date > cutoff_date

\* the window test of analyze_sending_statistics and check_sent_history_health
InWindow(send_date, cutoff_date) == send_date >= cutoff_date

\* the rows analyze_sending_statistics counts: the date parses (a ValueError skips
\* the row) and is inside the window
CountedRows(rows, t, days) ==
  { i \in 1 .. Len(rows) :
      /\ ParsesHMS(rows[i].date)
      /\ InWindow(ValueHMS(rows[i].date), CutoffDate(t, days)) }
\* success_rate: (successful_sends / total_attempts) * 100 as the fraction
\* <<numerator, denominator>>; it stays 0.0 when nothing was counted
SuccessRate(successful, total) ==
  IF total > 0 THEN <<successful * 100, total>> ELSE <<0, 1>>
\* the empty dictionary {} the failure handlers of the maintenance tools return
EmptyDict == [ keys |-> {} ]
\* analyze_sending_statistics: the counts of the stats dictionary.  A counted row
\* that is not a Success and has no error column raises TypeError
\* (row['error'][:50] on None), which only the outer handler catches: it
\* returns {}.
analyze_sending_statistics(rows, t, days) ==
  LET counted == CountedRows(rows, t, days)
      ok == { i \in counted : rows[i].status = "Success" }
  IN IF \E i \in counted \ ok : rows[i].error = None
       THEN EmptyDict
       ELSE [ total_attempts |-> Cardinality(counted),
              successful_sends |-> Cardinality(ok),
              failed_sends |-> Cardinality(counted \ ok),
              success_rate |-> SuccessRate(Cardinality(ok), Cardinality(counted)) ]

\* check_sent_history_health: the users of the rows whose date parses, and those
\* with a Success inside the reset window; no column is indexed, so a short row
\* raises nothing.
check_sent_history_health(rows, t) ==
  LET parsed == { i \in 1 .. Len(rows) : ParsesHMS(rows[i].date) }
      recent == { i \in parsed :
                    /\ InWindow(ValueHMS(rows[i].date), CutoffDate(t, sent_history_reset_days))
                    /\ rows[i].status = "Success" }
  IN [ total_unique_users |-> Cardinality({ rows[i].username : i \in parsed }),
       recent_successful_users |-> Cardinality({ rows[i].username : i \in recent }) ]

\* any log of rows the engine wrote
InitAnalyze ==
  /\ log_writable = TRUE
  /\ PaceInit
  /\ SchedInit
  /\ pc = "read"
  /\ now = AnalyzeNow
  /\ history \in UNION { [1 .. n -> AnalyzeRows] : n \in 0 .. MaxRows }
  /\ sent_users = {}
  /\ blacklist_urls = {}
  /\ raw = {}
  /\ kept = {}
  /\ RunInit
  /\ SendInit
  /\ ScrollInit

\* analyze_sending_statistics is called
Analyze ==
  /\ pc = "read"
  /\ stats' = analyze_sending_statistics(history, now, AnalysisDays)
  /\ pc' = "analyzed"
  /\ UNCHANGED <<log_writable, paceVars, schedVars, now, history, sent_users, blacklist_urls, raw, kept, runVars, scrollVars,
                 sendVars>>

SpecAnalyze == InitAnalyze /\ [][Analyze]_vars

\* C13: for a log with N Success rows and M other rows dated at or after
\* now - days (and any rows before), analyze_sending_statistics returns
\* total_attempts = N + M, successful_sends = N, failed_sends = M and
\* success_rate = N / (N + M) * 100, or 0 when N + M = 0.
C13_StatisticsCountWindow ==
  pc = "analyzed" =>
    LET inside == { i \in 1 .. Len(history) :
                      ValueHMS(history[i].date) >= now - AnalysisDays * SecondsPerDay }
        N == Cardinality({ i \in inside : history[i].status = "Success" })
        M == Cardinality({ i \in inside : history[i].status # "Success" })
    IN stats = [ total_attempts |-> N + M, successful_sends |-> N, failed_sends |-> M,
                 success_rate |-> IF N + M = 0 THEN <<0, 1>> ELSE <<N * 100, N + M>> ]
\* a log with a Success exactly at the cutoff, a failure inside the window and
\* nothing else was analyzed
C13_Witness ==
  /\ pc = "analyzed"
  /\ Len(history) = 2
  /\ history[1].status = "Success"
  /\ ValueHMS(history[1].date) = now - AnalysisDays * SecondsPerDay
  /\ history[2].status = "Failed"
  /\ stats.total_attempts = 2

\* A row of the file with only its first n columns: csv.DictReader gives None for
\* the columns a short row lacks (status is the fourth column, error the fifth).
ShortRow(row, n) ==
  [ date |-> row.date, username |-> row.username, url |-> row.url,
    status |-> IF n >= 4 THEN row.status ELSE None,
    error |-> IF n >= 5 THEN row.error ELSE None ]
\* rows of today: dated as log_sending_result dates them, dated without seconds,
\* or with an empty date; whole, or cut after the third or the fourth column
ReadRows ==
  { ShortRow(r, n) :
      r \in [ date : { strftime_HMS(AnalyzeNow), DateStringHM(AnalyzeNow), <<>> },
              username : { UsernameOf([site |-> "x.com", name |-> "a"]) },
              url : { [site |-> "x.com", name |-> "a"] },
              status : {"Success", "Failed"},
              error : {"error"} ],
      n \in 3 .. 5 }

\* any log, malformed rows included
InitRead ==
  /\ log_writable = TRUE
  /\ PaceInit
  /\ SchedInit
  /\ pc = "read"
  /\ now = AnalyzeNow
  /\ history \in UNION { [1 .. n -> ReadRows] : n \in 0 .. MaxRows }
  /\ sent_users = {}
  /\ blacklist_urls = {}
  /\ raw = {}
  /\ kept = {}
  /\ RunInit
  /\ SendInit
  /\ ScrollInit

\* check_sent_history_health is called
ReadHealth ==
  /\ pc = "read"
  /\ stats' = check_sent_history_health(history, now)
  /\ pc' = "health"
  /\ UNCHANGED <<log_writable, paceVars, schedVars, now, history, sent_users, blacklist_urls, raw, kept, runVars, scrollVars,
                 sendVars>>

\* send_daily_report is called: what it sends, and whether its read of the file
\* went through all rows
ReadDaily ==
  /\ pc = "read"
  /\ stats' = [ sent |-> send_daily_report(history, now),
                read |-> IF DailyReadRaises(history, now) THEN "aborted" ELSE "complete" ]
  /\ pc' = "reported"
  /\ UNCHANGED <<log_writable, paceVars, schedVars, now, history, sent_users, blacklist_urls, raw, kept, runVars, scrollVars,
                 sendVars>>

NextRead ==
  \/ LoadHistory
  \/ Analyze
  \/ ReadHealth
  \/ ReadDaily

SpecRead == InitRead /\ [][NextRead]_vars

\* C17: no reader of the log is aborted by a malformed row: analyze_sending_statistics
\* returns its statistics, not the empty dictionary of its failure handler, and
\* send_daily_report reads the file to its end.
C17_ReadersNeverAbort ==
  /\ pc = "analyzed" => stats # EmptyDict
  /\ pc = "reported" => stats.read = "complete"

(***************************************************************************)
(* scroll_and_collect alone, on a page the backend changes at will.        *)
(***************************************************************************)
\* the page's links as extract_usernames_from_page returns them
extract_usernames_from_page(links) == { PairOf(h) : h \in links }

\* stable_count after the height check, without the reset on a changed height
StableAfter_NoReset(current_height, new_height, stable) ==
  IF new_height = current_height THEN stable + 1 ELSE stable

\* stable_count after the height check of one scroll
StableAfter(current_height, new_height, stable) ==
  IF new_height = current_height THEN stable + 1 ELSE 0

\* the number of consecutive unchanged heights that ends the loop
StableLimit == 2

\* any first page
InitScroll ==
  /\ log_writable = TRUE
  /\ PaceInit
  /\ SchedInit
  /\ pc = "scrolling"
  /\ page \in SUBSET Hrefs
  /\ height = 0
  /\ scroll = 0
  /\ stable_count = 0
  /\ all_usernames = {}
  /\ heightLog = <<>>
  /\ growLog = <<>>
  /\ extracted = {}
  /\ now = 0
  /\ history = <<>>
  /\ sent_users = {}
  /\ blacklist_urls = {}
  /\ raw = {}
  /\ kept = {}
  /\ RunInit
  /\ SendInit

\* all_usernames replaced by the current page's candidates
Accumulate_Replace(all, current_users) == current_users

\* scroll_and_collect: all_usernames.update(current_users)
Accumulate(all, current_users) == all \cup current_users

\* scroll_and_collect: for scroll in range(max_scrolls)
MoreScrolls(n) == n < max_scroll_per_page

\* One pass of the loop of scroll_and_collect: the page is extracted and added,
\* the height is read, the window is scrolled, and after the wait the height is
\* read again. What the scroll reveals and whether the height changes is the
\* backend's to choose.  extract_usernames_from_page catches its own exceptions
\* and returns what it has, nothing when the page could not be read.  The three
\* execute_script calls are not inside any try of scroll_and_collect: when one
\* raises, before or after the window was scrolled, the exception leaves the
\* function and nothing is returned.
ScrollOnce ==
  /\ pc = "scrolling"
  /\ MoreScrolls(scroll)
  /\ \E next_page \in SUBSET Hrefs, changed \in BOOLEAN, extract_ok \in BOOLEAN,
        script \in {"ok", "raised_before_scroll", "raised_after_scroll"} :
       LET current_users == IF extract_ok THEN extract_usernames_from_page(page) ELSE {}
       IN /\ extracted' = extracted \cup current_users
          /\ all_usernames' = Accumulate(all_usernames, current_users)
          /\ IF script = "ok"
               THEN /\ page' = next_page
                    /\ height' = IF changed THEN height + 1 ELSE height
                    /\ heightLog' = Append(heightLog, changed)
                    /\ growLog' = Append(growLog,
                                    extract_usernames_from_page(next_page) \ all_usernames' # {})
                    /\ stable_count' = StableAfter(height, height', stable_count)
                    /\ scroll' = scroll + 1
                    /\ pc' = IF (height' = height /\ stable_count' >= StableLimit)
                                \/ ~MoreScrolls(scroll')
                               THEN "returned" ELSE "scrolling"
                    /\ raw' = IF pc' = "returned" THEN all_usernames' ELSE raw
               ELSE /\ pc' = "raised"
                    /\ scroll' = IF script = "raised_after_scroll" THEN scroll + 1 ELSE scroll
                    /\ UNCHANGED <<page, height, heightLog, growLog, stable_count, raw>>
  /\ UNCHANGED <<log_writable, paceVars, schedVars, now, history, sent_users, blacklist_urls, kept, runVars, sendVars,
                 stats>>

SpecScroll == InitScroll /\ [][ScrollOnce]_vars

\* scroll_and_collect is one thread's loop: a pass that can be made is made
SpecScrollFair == SpecScroll /\ WF_vars(ScrollOnce)

\* the loop stops exactly after the second consecutive FALSE of a log of reveal
\* actions: not before it, and not later (unless max_scroll_per_page is reached)
StopsAtSecondConsecutive(log) ==
  /\ \A k \in 2 .. Len(log) :
       (~log[k - 1] /\ ~log[k]) => (k = Len(log) /\ pc = "returned")
  /\ pc = "returned" =>
       \/ Len(log) >= 2 /\ ~log[Len(log) - 1] /\ ~log[Len(log)]
       \/ Len(log) = max_scroll_per_page
\* the accumulated candidate set grows with the first reveal actions and then
\* stays stable
GrowsThenStable ==
  /\ Len(growLog) > 0
  /\ growLog[1]
  /\ \A i \in 1 .. Len(growLog), j \in 1 .. Len(growLog) :
       (i < j /\ growLog[j]) => growLog[i]

\* C10 (as claimed): with a candidate set that grows and then stays stable,
\* scroll_and_collect stops exactly after the second consecutive reveal action that
\* brought no growth of the accumulated candidates.
C10_StopsAtSecondNoGrowth == GrowsThenStable => StopsAtSecondConsecutive(growLog)

\* C10 (amended): scroll_and_collect stops exactly after the second consecutive
\* reveal action that left the page height unchanged: not after the first, and
\* not later, unless max_scroll_per_page reveal actions are reached first.
C10_StopsAtSecondStableHeight == StopsAtSecondConsecutive(heightLog)
\* a first unchanged height did not stop the loop, two in a row did, before the
\* maximum
C10_Witness ==
  /\ pc = "returned"
  /\ Len(heightLog) < max_scroll_per_page
  /\ \E k \in 1 .. Len(heightLog) - 1 : ~heightLog[k] /\ heightLog[k + 1]

\* C25: scroll_and_collect always ends, whatever the backend does and however
\* long the page keeps growing; it performs at most max_scroll_per_page reveal
\* actions, and the set it returns contains every candidate that was extracted
\* before any of them.
C25_ScrollTerminatesBounded ==
  /\ [](scroll <= max_scroll_per_page)
  /\ [](pc = "returned" => extracted \subseteq raw)
  /\ <>(pc \in {"returned", "raised"})
\* the page grew at every reveal action, the loop stopped at the maximum and
\* returned candidates that the last page no longer shows
C25_Witness ==
  /\ pc = "returned"
  /\ scroll = max_scroll_per_page
  /\ \A k \in 1 .. Len(heightLog) : heightLog[k]
  /\ raw \ extract_usernames_from_page(page) # {}

\* C26: the set scroll_and_collect returns never holds two candidates with the
\* same username, even when the page shows one account under two urls.
C26_ResultKeyedByUsername ==
  pc = "returned" => \A p \in raw, q \in raw : p[1] = q[1] => p = q

\* C27: when a backend call fails while a page of a query is fetched, after at
\* least one reveal action, the candidates accumulated so far are in what
\* scroll_and_collect hands to the query.
C27_PartialResultsKept ==
  (pc = "raised" /\ scroll >= 1) => all_usernames \subseteq raw

(***************************************************************************)
(* send_dm_to_user alone, against a backend that answers at will.          *)
(***************************************************************************)
\* the lengths of message_selectors and textbox_selectors, and max_attempts of
\* safe_click
NumMessageSelectors == 4
NumTextboxSelectors == 3
max_attempts == 3

\* safe_click making one attempt more than max_attempts
AttemptsLeft_OneMore(a) == a <= max_attempts

\* safe_click: for attempt in range(max_attempts)
AttemptsLeft(a) == a < max_attempts

\* send_dm_to_user without its except clause: the exception leaves the function
SendExcept_Reraise == [ pc |-> "send_raised", returned |-> <<>> ]

\* the except clause of send_dm_to_user: whatever a backend call raised (other
\* than the TimeoutException of a selector, caught where it is raised),
\* (False, str(e)) is returned
SendExcept == [ pc |-> "send_returned", returned |-> <<FALSE, "str(e)">> ]

\* the steps done so far, without their order
StepsDone == { steps[i] : i \in 1 .. Len(steps) }

\* send_dm_to_user is entered with any message text
InitSend ==
  /\ log_writable = TRUE
  /\ PaceInit
  /\ SchedInit
  /\ pc = "send_open"
  /\ message \in 0 .. MaxMessage
  /\ selector = 0
  /\ typed = 0
  /\ attempt = 0
  /\ steps = <<>>
  /\ returned = <<>>
  /\ stats = "none"
  /\ now = 0
  /\ history = <<>>
  /\ sent_users = {}
  /\ blacklist_urls = {}
  /\ raw = {}
  /\ kept = {}
  /\ RunInit
  /\ ScrollInit

\* driver.get(url)
SendOpen ==
  /\ pc = "send_open"
  /\ \E raised \in BOOLEAN :
       /\ pc' = IF raised THEN SendExcept.pc ELSE "send_button"
       /\ returned' = IF raised THEN SendExcept.returned ELSE returned
  /\ UNCHANGED <<log_writable, paceVars, schedVars, now, history, sent_users, blacklist_urls, raw, kept, runVars,
                 scrollVars, message, selector, typed, attempt, steps, stats>>

\* the loop over message_selectors, one selector; after the last one without a
\* button, (False, "Message button not found")
SendFindButton ==
  /\ pc = "send_button"
  /\ IF selector = NumMessageSelectors
       THEN /\ pc' = "send_returned"
            /\ returned' = <<FALSE, "Message button not found">>
            /\ UNCHANGED <<selector, steps>>
       ELSE \E outcome \in {"found", "timeout", "raised"} :
            /\ pc' = CASE outcome = "found" -> "send_click"
                        [] outcome = "timeout" -> pc
                        [] outcome = "raised" -> SendExcept.pc
            /\ returned' = IF outcome = "raised" THEN SendExcept.returned ELSE returned
            /\ selector' = IF outcome = "timeout" THEN selector + 1 ELSE selector
            /\ steps' = IF outcome = "found" THEN Append(steps, "located") ELSE steps
  /\ UNCHANGED <<log_writable, paceVars, schedVars, now, history, sent_users, blacklist_urls, raw, kept, runVars,
                 scrollVars, message, typed, attempt, stats>>

\* safe_click(message_button), one pass of its loop: scrollIntoView and
\* element.click(); an intercepted click or any other exception is caught and the
\* next attempt made; True is returned at the first click that goes through,
\* False after the loop, and send_dm_to_user then returns
\* (False, "Failed to click message button").
SendClick ==
  /\ pc = "send_click"
  /\ IF AttemptsLeft(attempt)
       THEN \E outcome \in {"clicked", "intercepted", "raised"} :
            /\ attempt' = attempt + 1
            /\ pc' = IF outcome = "clicked" THEN "send_textbox" ELSE pc
            /\ steps' = IF outcome = "clicked" THEN Append(steps, "clicked") ELSE steps
            /\ returned' = returned
       ELSE /\ pc' = "send_returned"
            /\ returned' = <<FALSE, "Failed to click message button">>
            /\ UNCHANGED <<attempt, steps>>
  /\ selector' = 0
  /\ UNCHANGED <<log_writable, paceVars, schedVars, now, history, sent_users, blacklist_urls, raw, kept, runVars,
                 scrollVars, message, typed, stats>>

\* the loop over textbox_selectors, one selector; after the last one without a
\* textbox, (False, "Text input not found")
SendFindTextbox ==
  /\ pc = "send_textbox"
  /\ IF selector = NumTextboxSelectors
       THEN /\ pc' = "send_returned"
            /\ returned' = <<FALSE, "Text input not found">>
            /\ UNCHANGED <<selector, steps>>
       ELSE \E outcome \in {"found", "timeout", "raised"} :
            /\ pc' = CASE outcome = "found" -> "send_focus"
                        [] outcome = "timeout" -> pc
                        [] outcome = "raised" -> SendExcept.pc
            /\ returned' = IF outcome = "raised" THEN SendExcept.returned ELSE returned
            /\ selector' = IF outcome = "timeout" THEN selector + 1 ELSE selector
            /\ steps' = IF outcome = "found" THEN Append(steps, "textbox") ELSE steps
  /\ UNCHANGED <<log_writable, paceVars, schedVars, now, history, sent_users, blacklist_urls, raw, kept, runVars,
                 scrollVars, message, typed, attempt, stats>>

\* textbox.click()
SendFocus ==
  /\ pc = "send_focus"
  /\ \E raised \in BOOLEAN :
       /\ pc' = IF raised THEN SendExcept.pc ELSE "send_type"
       /\ returned' = IF raised THEN SendExcept.returned ELSE returned
  /\ UNCHANGED <<log_writable, paceVars, schedVars, now, history, sent_users, blacklist_urls, raw, kept, runVars,
                 scrollVars, message, selector, typed, attempt, steps, stats>>

\* one character typed (textbox.send_keys(char)), or, after the last one,
\* textbox.send_keys(Keys.RETURN), a sleep, and (True, "Success").  What the
\* conversation shows after RETURN (the message as sent, or an error) is the
\* backend's; the function reads nothing after the key was sent.
SendType ==
  /\ pc = "send_type"
  /\ \E raised \in BOOLEAN, shown \in {"shown_sent", "shown_error"} :
       /\ pc' = IF raised THEN SendExcept.pc
                 ELSE IF typed < message THEN pc ELSE "send_returned"
       /\ returned' = IF raised THEN SendExcept.returned
                       ELSE IF typed < message THEN returned ELSE <<TRUE, "Success">>
       /\ typed' = IF ~raised /\ typed < message THEN typed + 1 ELSE typed
       /\ steps' = IF typed < message THEN steps
                    ELSE IF raised THEN Append(steps, "typed")
                    ELSE steps \o <<"typed", "submitted", shown>>
  /\ UNCHANGED <<log_writable, paceVars, schedVars, now, history, sent_users, blacklist_urls, raw, kept, runVars,
                 scrollVars, message, selector, attempt, stats>>

NextSend ==
  \/ SendOpen
  \/ SendFindButton
  \/ SendClick
  \/ SendFindTextbox
  \/ SendFocus
  \/ SendType

SpecSend == InitSend /\ [][NextSend]_vars
\* every backend call returns or raises in bounded time (the waits have a
\* timeout), so an invocation that can take a step takes it
SpecSendFair == SpecSend /\ WF_vars(NextSend)

\* the pairs send_dm_to_user can return
SendResults ==
  { <<TRUE, "Success">> } \cup
  { <<FALSE, reason>> : reason \in {"Message button not found",
                                    "Failed to click message button",
                                    "Text input not found", "str(e)"} }

\* C14: every invocation of send_dm_to_user reaches exactly one terminal state
\* and returns it as a pair, (True, "Success") or (False, reason); no exception
\* of a backend call leaves the invocation.
C14_OneTerminalState ==
  /\ [](pc # "send_raised")
  /\ [](IF pc = "send_returned" THEN returned \in SendResults ELSE returned = <<>>)
  /\ [][pc = "send_returned" => returned' = returned]_vars
  /\ <>(pc = "send_returned")
\* the last character was typed and the RETURN key raised: the failure was
\* returned, not raised
C14_Witness ==
  /\ pc = "send_returned"
  /\ message > 0
  /\ typed = message
  /\ returned = <<FALSE, "str(e)">>

\* C23: send_dm_to_user returns (True, "Success") only after, in this order, the
\* message button was located and clicked, the text input located, the message
\* typed and submitted, and the send confirmed; after a failed step it returns a
\* failure and does no later step.
C23_SuccessOnlyAfterConfirm ==
  /\ returned = <<TRUE, "Success">>
       => steps = <<"located", "clicked", "textbox", "typed", "submitted", "shown_sent">>
  /\ (pc = "send_returned" /\ returned # <<TRUE, "Success">>)
       => /\ "submitted" \notin StepsDone
          /\ "clicked" \notin StepsDone => typed = 0 /\ "textbox" \notin StepsDone

\* C24: safe_click makes at most max_attempts attempts; after the click that
\* went through it makes no other; it returns False, and send_dm_to_user
\* (False, "Failed to click message button"), exactly when max_attempts attempts
\* have failed, and then nothing was typed or submitted.
C24_ClickAttemptsBounded ==
  /\ attempt <= max_attempts
  /\ "clicked" \in StepsDone => (pc # "send_click" /\ attempt >= 1)
  /\ (pc = "send_returned" /\ returned = <<FALSE, "Failed to click message button">>)
       => /\ attempt = max_attempts
          /\ StepsDone = {"located"}
          /\ typed = 0
  /\ (pc = "send_returned" /\ attempt = max_attempts /\ "clicked" \notin StepsDone)
       => returned = <<FALSE, "Failed to click message button">>
\* three attempts failed and the failure was returned
C24_Witness ==
  /\ pc = "send_returned"
  /\ attempt = max_attempts
  /\ returned = <<FALSE, "Failed to click message button">>

(***************************************************************************)
(* wait_between_actions alone, for any action count.                       *)
(*   src/x_dm_sender_improved.py  wait_between_actions                     *)
(***************************************************************************)
\* the largest action_count passed
MaxActionCount == 301
\* config['sending']['min_wait_seconds'] and ['max_wait_seconds']
min_wait_seconds == 30
max_wait_seconds == 31

\* base_wait is kept in tenths of a second, so that * 1.5 stays an integer
TenthsPerSecond == 10
\* the thresholds of the two if tests and the factors they apply, in tenths
FirstThreshold == 100
SecondThreshold == 300
NoScale == 10
FirstScale == 15
SecondScale == 20
\* random.uniform(60, 180), its two ends
LongBreaks == {60, 180}

\* wait_between_actions: if action_count > 100: base_wait *= 1.5
\*                        elif action_count > 300: base_wait *= 2.0
WaitFactor(n) ==
  IF n > FirstThreshold THEN FirstScale
  ELSE IF n > SecondThreshold THEN SecondScale
  ELSE NoScale

\* wait_between_actions was called with any action count and has drawn its base
\* wait
InitPace ==
  /\ log_writable = TRUE
  /\ pc = "pace"
  /\ action_count \in 0 .. MaxActionCount
  /\ drawn \in {min_wait_seconds, max_wait_seconds}
  /\ base_wait = -1
  /\ SchedInit
  /\ now = 0
  /\ history = <<>>
  /\ sent_users = {}
  /\ blacklist_urls = {}
  /\ raw = {}
  /\ kept = {}
  /\ RunInit
  /\ SendInit
  /\ ScrollInit

\* the two if tests on action_count
ScaleWait ==
  /\ pc = "pace"
  /\ base_wait' = drawn * WaitFactor(action_count)
  /\ pc' = "scaled"
  /\ UNCHANGED <<log_writable, action_count, drawn, schedVars, now, history, sent_users,
                 blacklist_urls, raw, kept, runVars, scrollVars, sendVars, stats>>

\* the long break added with probability 0.1, and time.sleep(base_wait)
Sleep ==
  /\ pc = "scaled"
  /\ \E long_break \in BOOLEAN, extra \in LongBreaks :
       base_wait' = base_wait + (IF long_break THEN extra * TenthsPerSecond ELSE 0)
  /\ now' = now + base_wait' \div TenthsPerSecond
  /\ pc' = "slept"
  /\ UNCHANGED <<log_writable, action_count, drawn, schedVars, history, sent_users,
                 blacklist_urls, raw, kept, runVars, scrollVars, sendVars, stats>>

NextPace ==
  \/ ScaleWait
  \/ Sleep

SpecPace == InitPace /\ [][NextPace]_vars

\* C31: the base wait is multiplied by 1.0 while action_count is at most 100, by
\* 1.5 when it is above 100 and at most 300, and by 2.0 when it is above 300.
C31_TieredMultiplier ==
  pc = "scaled" =>
    base_wait = drawn * (IF action_count <= FirstThreshold THEN NoScale
                         ELSE IF action_count <= SecondThreshold THEN FirstScale
                         ELSE SecondScale)

(***************************************************************************)
(* The scheduler and the sender processes it starts.                       *)
(*   src/scheduler.py  run_dm_sender, start_scheduler                      *)
(***************************************************************************)
\* the last time at which run_pending is called
MaxSchedSeconds == 4000
\* the most run_dm_sender jobs one run_pending finds due
MaxDue == 2
\* the longest step of the clock while subprocess.run waits
WaitStep == 1800

\* subprocess.run(timeout=3600), time.sleep(60), time.sleep(300)
JobTimeout == 3600
PollSeconds == 60
ErrorSleep == 300

\* a child started without waiting for it
SubprocessReturns_NoWait(alive, elapsed) == TRUE

\* subprocess.run returns (or raises TimeoutExpired) only when the child has
\* exited or the timeout has passed
SubprocessReturns(alive, elapsed) == alive = 0 \/ elapsed >= JobTimeout

\* what the scheduler never touches
schedFrame == <<log_writable, paceVars, history, sent_users, blacklist_urls, driver,
                discoveryVars, loopVars, slack, runStart, startedAt, scrollVars, sendVars,
                stats>>

\* start_scheduler has registered its jobs and enters its loop; no child runs
InitSched ==
  /\ log_writable = TRUE
  /\ PaceInit
  /\ SchedInit
  /\ pc = "sched_poll"
  /\ now = 0
  /\ history = <<>>
  /\ sent_users = {}
  /\ blacklist_urls = {}
  /\ raw = {}
  /\ kept = {}
  /\ RunInit
  /\ SendInit
  /\ ScrollInit

\* schedule.run_pending(): the jobs that are due are run one after the other in
\* the loop's thread; an exception of run_pending is logged and the loop sleeps
\* five minutes
SchedRunPending ==
  /\ pc = "sched_poll"
  /\ now <= MaxSchedSeconds
  /\ \E n \in 0 .. MaxDue, raised \in BOOLEAN :
       IF raised
         THEN /\ now' = now + ErrorSleep
              /\ UNCHANGED <<pc, due>>
         ELSE /\ due' = n
              /\ pc' = "sched_jobs"
              /\ now' = now
  /\ UNCHANGED <<children, child_started, trace, schedFrame>>

\* run_dm_sender: subprocess.run starts the child; when it cannot (the exception
\* is caught and logged) the job is over
SchedStartJob ==
  /\ pc = "sched_jobs"
  /\ due > 0
  /\ \E started \in BOOLEAN :
       IF started
         THEN /\ children' = children + 1
              /\ child_started' = now
              /\ pc' = "sched_wait"
              /\ due' = due
         ELSE /\ due' = due - 1
              /\ UNCHANGED <<children, child_started, pc>>
  /\ UNCHANGED <<now, trace, schedFrame>>

\* a sender process ends by itself
SchedChildExit ==
  /\ children > 0
  /\ children' = children - 1
  /\ UNCHANGED <<now, pc, due, child_started, trace, schedFrame>>

\* time passes while subprocess.run waits for the child, up to the timeout
SchedWait ==
  /\ pc = "sched_wait"
  /\ children > 0
  /\ now < child_started + JobTimeout
  /\ now' = Min(now + WaitStep, child_started + JobTimeout)
  /\ UNCHANGED <<pc, children, due, child_started, trace, schedFrame>>

\* subprocess.run is over: the child has exited, or the timeout has passed and
\* the child is killed and waited for before TimeoutExpired is raised;
\* run_dm_sender logs the outcome and returns
SchedJobReturns ==
  /\ pc = "sched_wait"
  /\ SubprocessReturns(children, now - child_started)
  /\ LET timed_out == children > 0 /\ now - child_started >= JobTimeout
     IN /\ children' = IF timed_out THEN children - 1 ELSE children
        /\ trace' = IF timed_out THEN trace \cup {"timedOut"} ELSE trace
  /\ due' = due - 1
  /\ pc' = "sched_jobs"
  /\ UNCHANGED <<now, child_started, schedFrame>>

\* every due job has run: time.sleep(60)
SchedSleep ==
  /\ pc = "sched_jobs"
  /\ due = 0
  /\ now' = now + PollSeconds
  /\ pc' = "sched_poll"
  /\ UNCHANGED <<children, due, child_started, trace, schedFrame>>

\* KeyboardInterrupt: subprocess.run kills the child it waits for and re-raises,
\* and the loop breaks
SchedInterrupt ==
  /\ pc \in {"sched_poll", "sched_jobs", "sched_wait"}
  /\ children' = IF pc = "sched_wait" /\ children > 0 THEN children - 1 ELSE children
  /\ pc' = "sched_stopped"
  /\ UNCHANGED <<now, due, child_started, trace, schedFrame>>

NextSched ==
  \/ SchedRunPending
  \/ SchedStartJob
  \/ SchedChildExit
  \/ SchedWait
  \/ SchedJobReturns
  \/ SchedSleep
  \/ SchedInterrupt

SpecSched == InitSched /\ [][NextSched]_vars

\* C34: the scheduler never has two sender processes alive: whenever its loop
\* is able to start a job, the one before has exited or was killed at its
\* timeout, so the log has at most one writer among the processes it started.
C34_OneRunAtATime ==
  /\ children <= 1
  /\ pc \in {"sched_poll", "sched_jobs", "sched_stopped"} => children = 0
\* a child was killed at the timeout and the next job's child is running
C34_Witness ==
  /\ "timedOut" \in trace
  /\ pc = "sched_wait"
  /\ children = 1
  /\ child_started >= JobTimeout

====
